---- MODULE Spec2Model ----
(***************************************************************************)
(* Snapshot buffers, event frontier and interpolation of                   *)
(* bevy_replicon_snap.                                                     *)
(*                                                                         *)
(* Time (f32 seconds in the source) is kept in exact fixed-point steps of  *)
(* 1/UnitsPerSecond second, and component values in the same fixed-point   *)
(* representation, so that blend factors are exact rationals.              *)
(***************************************************************************)
EXTENDS Integers, Sequences, FiniteSets, TLC

(* ---- bounds of the model ---- *)
MaxCap == 3
MaxTick == 3
MaxInserts == 4
MaxAge == 1
MaxDelta == 1
MaxEventCap == 2
MaxIndex == 2
MaxEventTick == 1
MaxMapInserts == 2
MaxEventInserts == 3
MaxWorldCap == 2
MaxWorldTick == 1
MaxWorldInserts == 2
MaxWorldAge == 2
MaxPopulates == 2
MaxEventsRead == 1
MaxPopulateCap == 1
UnitsPerSecond == 20

Capacities == 0..MaxCap
Ticks == 0..MaxTick
DeltaTimes == 0..MaxDelta
\* component values: 0.0 and 1.0 in fixed point
Values == {0, UnitsPerSecond}
EventCapacities == 0..MaxEventCap
Indices == 0..MaxIndex
EventTicks == 0..MaxEventTick
ClientIds == {"client1", "client2"}
WorldCapacities == 0..MaxWorldCap
WorldTicks == 0..MaxWorldTick
Entities == {"entity1", "entity2"}
\* RepliconSnapConfig::server_tick_rate: 10 or 20 ticks a second
ServerTickRates == {10, 20}

VARIABLES
    obj,        \* which object this run constructed and drives
    cb,         \* the ComponentSnapshotBuffer
    eb,         \* the EventSnapshotBuffer
    cm,         \* the EventSnapshotClientMap
    world,      \* per entity: its component C and its ComponentSnapshotBuffer<C>
    interpolated_replication,   \* the entities with InterpolatedReplication
    owner_controlling,          \* the entities with OwnerControlling
    delta_seconds,      \* Time::delta_seconds() of the current frame
    server_tick_rate,   \* RepliconSnapConfig::server_tick_rate
    written,    \* history: the entities whose component the last step assigned
    worldInserts,   \* history: the number of inserts made on world buffers
    debug_assertions,   \* cfg!(debug_assertions) of the build
    server_entity_ticks,    \* ServerEntityTicks: the server tick of the
                            \* entities that have one mapped
    changed,    \* the entities whose component C is Added or Changed
    panicked,   \* a system panicked
    event_buffers,  \* per entity: its EventSnapshotBuffer<E>
    populates,  \* history: the number of runs of the populate systems
    network_owner,  \* NetworkOwner::get() of the entities that have one
    predicted,  \* the entities with Predicted
    added_predicted,    \* the entities whose Predicted was added since
                        \* init_prediction last ran
    transport_client_id,    \* NetcodeClientTransport::client_id().raw()
    commands,   \* the entities with a queued insert of OwnerControlling
    mapInserts, \* history: the number of insert calls made on cm
    result,     \* the range the last call returned (<<>> when it returns none)
    accepted,   \* history: the snapshots cb stored, in the order it stored them
    inserted,   \* history: summary of all insert calls made on cb
    order,      \* history: for each entry of eb, in its order, the number of
                \* the insert that stored it (1 for the first one stored)
    stored,     \* history: the number of events eb stored so far
    consumed,   \* history: the stored entries of eb (by number) that frontier
                \* calls before the last call returned
    returned,   \* history: the entries of eb (by number) the last call returned
    alone,      \* for each client, a standalone EventSnapshotBuffer of the
                \* map's capacity that gets the calls made on the map for it
    aloneResult,    \* the range the last call returned on the standalone buffer
    call        \* history: the last call made (operation and arguments)

eventHistory == <<order, stored, consumed, returned>>

mapHistory == <<alone, aloneResult>>

bufferVars ==
    <<cb, eb, cm, mapInserts, result, accepted, inserted, eventHistory,
      mapHistory>>

populateVars ==
    <<debug_assertions, server_entity_ticks, changed, panicked, event_buffers,
      populates>>

predictionVars ==
    <<network_owner, predicted, added_predicted, transport_client_id,
      commands>>

worldVars ==
    <<world, interpolated_replication, owner_controlling, delta_seconds,
      server_tick_rate, written, worldInserts, populateVars, predictionVars>>

vars == <<obj, bufferVars, worldVars, call>>

Max(a, b) == IF a >= b THEN a ELSE b
Min(a, b) == IF a <= b THEN a ELSE b

\* VecDeque::pop_front: removes the front element if there is one
pop_front(q) == IF q = <<>> THEN q ELSE Tail(q)

\* slice::sort_by_key is a stable sort: insert x after every element whose
\* key is <= x's key
\* (the key is the record field named key)
RECURSIVE InsertByKey(_, _, _)
InsertByKey(x, s, key) ==
    IF s = <<>> THEN <<x>>
    ELSE IF Head(s)[key] <= x[key] THEN <<Head(s)>> \o InsertByKey(x, Tail(s), key)
    ELSE <<x>> \o s

RECURSIVE sort_by_key(_, _)
sort_by_key(s, key) ==
    IF s = <<>> THEN <<>>
    ELSE InsertByKey(s[Len(s)], sort_by_key(SubSeq(s, 1, Len(s) - 1), key), key)

(* ---- ComponentSnapshot / ComponentSnapshotBuffer ---- *)

ComponentSnapshot(component, tick) == [tick |-> tick, component |-> component]

ComponentSnapshotBuffer_with_capacity(max_buffer_size) ==
    [buffer |-> <<>>,
     time_since_last_snapshot |-> 0,
     latest_snapshot_tick |-> 0,
     max_buffer_size |-> max_buffer_size]

\* mutant: the tick is not compared with the latest tick
ComponentSnapshotBuffer_accepts_AnyTick(self, tick) ==
    self.max_buffer_size # 0

\* the two early returns of insert: TRUE when the call goes on to store
ComponentSnapshotBuffer_accepts(self, tick) ==
    /\ self.max_buffer_size # 0
    /\ ~(tick < self.latest_snapshot_tick)

\* mutant: a full buffer is not emptied of its oldest entry before the push
ComponentSnapshotBuffer_insert_NoEvict(self, component, tick) ==
    IF ~ComponentSnapshotBuffer_accepts(self, tick) THEN self
    ELSE [self EXCEPT
            !.buffer = Append(self.buffer, ComponentSnapshot(component, tick)),
            !.time_since_last_snapshot = 0,
            !.latest_snapshot_tick = tick]

\* mutant: the tick of the stored snapshot is not recorded as the latest
ComponentSnapshotBuffer_insert_KeepsLatest(self, component, tick) ==
    IF ~ComponentSnapshotBuffer_accepts(self, tick) THEN self
    ELSE LET kept == IF Len(self.buffer) >= self.max_buffer_size
                     THEN pop_front(self.buffer)
                     ELSE self.buffer
         IN [self EXCEPT
               !.buffer = Append(kept, ComponentSnapshot(component, tick)),
               !.time_since_last_snapshot = 0]

\* mutant: storing a snapshot does not reset the age
ComponentSnapshotBuffer_insert_KeepsAge(self, component, tick) ==
    IF ~ComponentSnapshotBuffer_accepts(self, tick) THEN self
    ELSE LET kept == IF Len(self.buffer) >= self.max_buffer_size
                     THEN pop_front(self.buffer)
                     ELSE self.buffer
         IN [self EXCEPT
               !.buffer = Append(kept, ComponentSnapshot(component, tick)),
               !.latest_snapshot_tick = tick]

\* mutant: a full buffer drops its newest entry, not its oldest
ComponentSnapshotBuffer_insert_PopBack(self, component, tick) ==
    IF ~ComponentSnapshotBuffer_accepts(self, tick) THEN self
    ELSE LET kept == IF Len(self.buffer) >= self.max_buffer_size
                     THEN SubSeq(self.buffer, 1, Len(self.buffer) - 1)
                     ELSE self.buffer
         IN [self EXCEPT
               !.buffer = Append(kept, ComponentSnapshot(component, tick)),
               !.time_since_last_snapshot = 0,
               !.latest_snapshot_tick = tick]

ComponentSnapshotBuffer_insert(self, component, tick) ==
    IF ~ComponentSnapshotBuffer_accepts(self, tick) THEN self
    ELSE LET kept == IF Len(self.buffer) >= self.max_buffer_size
                     THEN pop_front(self.buffer)
                     ELSE self.buffer
         IN [self EXCEPT
               !.buffer = Append(kept, ComponentSnapshot(component, tick)),
               !.time_since_last_snapshot = 0,
               !.latest_snapshot_tick = tick]

ComponentSnapshotBuffer_latest_snapshot(self) ==
    IF self.buffer = <<>> THEN <<>> ELSE <<self.buffer[Len(self.buffer)]>>

ComponentSnapshotBuffer_latest_snapshot_tick(self) == self.latest_snapshot_tick

ComponentSnapshotBuffer_len(self) == Len(self.buffer)

ComponentSnapshotBuffer_sort_with_tick(self) ==
    [self EXCEPT !.buffer = sort_by_key(self.buffer, "tick")]

ComponentSnapshotBuffer_age(self) == self.time_since_last_snapshot

ComponentSnapshotBuffer_add_age(self, add) ==
    [self EXCEPT !.time_since_last_snapshot = self.time_since_last_snapshot + add]

(* ---- snapshots::components, the ComponentSnapshotBuffer the ---- *)
(* ---- interpolation systems import                            ---- *)

\* mutant: the age is reset before the tick is checked
components_ComponentSnapshotBuffer_insert_ResetsAgeFirst(self, element, tick) ==
    IF tick <= self.latest_snapshot_tick
    THEN [self EXCEPT !.time_since_last_snapshot = 0]
    ELSE LET kept == IF Len(self.buffer) >= self.max_buffer_size
                     THEN pop_front(self.buffer)
                     ELSE self.buffer
         IN [self EXCEPT
               !.buffer = Append(kept, ComponentSnapshot(element, tick)),
               !.time_since_last_snapshot = 0,
               !.latest_snapshot_tick = tick]

components_ComponentSnapshotBuffer_insert(self, element, tick) ==
    IF tick <= self.latest_snapshot_tick THEN self
    ELSE LET kept == IF Len(self.buffer) >= self.max_buffer_size
                     THEN pop_front(self.buffer)
                     ELSE self.buffer
         IN [self EXCEPT
               !.buffer = Append(kept, ComponentSnapshot(element, tick)),
               !.time_since_last_snapshot = 0,
               !.latest_snapshot_tick = tick]

(* ---- EventSnapshot / EventSnapshotBufferInner ---- *)

\* an event is known by its IndexedEvent::index()
EventSnapshot(event, tick) == [index |-> event, tick |-> tick]

EventSnapshotBufferInner_with_capacity(capacity) ==
    [buffer |-> <<>>, latest_snapshot_tick |-> 0, frontier_index |-> 0]

EventSnapshotBufferInner_len(self) == Len(self.buffer)

EventSnapshotBufferInner_latest_snapshot(self) ==
    IF self.buffer = <<>> THEN <<>> ELSE <<self.buffer[Len(self.buffer)]>>

EventSnapshotBufferInner_latest_snapshot_tick(self) == self.latest_snapshot_tick

EventSnapshotBufferInner_iter(self) == self.buffer

\* mutant: the entries are left in the order they are in
EventSnapshotBufferInner_sort_with_index_NoSort(self) == self

EventSnapshotBufferInner_sort_with_index(self) ==
    [self EXCEPT !.buffer = sort_by_key(self.buffer, "index")]

EventSnapshotBufferInner_pop_front(self) ==
    [self EXCEPT !.buffer = pop_front(self.buffer)]

\* mutant: an index below the frontier index is not checked for
EventSnapshotBufferInner_accepts_AnyIndex(self, snapshot) ==
    ~(snapshot.tick < self.latest_snapshot_tick)

\* mutant: a tick equal to the latest tick is rejected too
EventSnapshotBufferInner_accepts_NewerTick(self, snapshot) ==
    /\ ~(snapshot.tick <= self.latest_snapshot_tick)
    /\ ~(snapshot.index < self.frontier_index)

\* insert stores the snapshot: neither of its checks returns
EventSnapshotBufferInner_accepts(self, snapshot) ==
    /\ ~(snapshot.tick < self.latest_snapshot_tick)
    /\ ~(snapshot.index < self.frontier_index)

\* mutant: the tick of the stored snapshot is not recorded
EventSnapshotBufferInner_insert_KeepsLatest(self, snapshot) ==
    IF ~EventSnapshotBufferInner_accepts(self, snapshot) THEN self
    ELSE [self EXCEPT !.buffer = Append(self.buffer, snapshot)]

\* mutant: the tick is recorded before the index is checked
EventSnapshotBufferInner_insert_TickFirst(self, snapshot) ==
    IF snapshot.tick < self.latest_snapshot_tick THEN self
    ELSE IF snapshot.index < self.frontier_index
    THEN [self EXCEPT !.latest_snapshot_tick = snapshot.tick]
    ELSE [self EXCEPT
            !.latest_snapshot_tick = snapshot.tick,
            !.buffer = Append(self.buffer, snapshot)]

EventSnapshotBufferInner_insert(self, snapshot) ==
    IF ~EventSnapshotBufferInner_accepts(self, snapshot) THEN self
    ELSE [self EXCEPT
            !.latest_snapshot_tick = snapshot.tick,
            !.buffer = Append(self.buffer, snapshot)]

\* Iterator::position: the first position whose entry has index >= the
\* frontier index, 0 when there is none
FrontierBegin(self) ==
    LET hits == {i \in 1..Len(self.buffer) :
                   self.buffer[i].index >= self.frontier_index}
    IN IF hits = {} THEN 0 ELSE CHOOSE i \in hits : \A j \in hits : i <= j

\* mutant: the frontier index is set after the first entry returned
EventSnapshotBufferInner_frontier_PastFirst(self) ==
    LET begin == FrontierBegin(self)
    IN IF begin # 0
       THEN <<[self EXCEPT !.frontier_index = self.buffer[begin].index + 1],
              SubSeq(self.buffer, begin, Len(self.buffer))>>
       ELSE <<self, <<>>>>

\* frontier: <<the buffer after the call, the range returned>>
EventSnapshotBufferInner_frontier(self) ==
    LET begin == FrontierBegin(self)
    IN IF begin # 0
       THEN <<[self EXCEPT
                 !.frontier_index = self.buffer[Len(self.buffer)].index + 1],
              SubSeq(self.buffer, begin, Len(self.buffer))>>
       ELSE <<self, <<>>>>

(* ---- EventSnapshotBuffer ---- *)

EventSnapshotBuffer_new(max_buffer_size) ==
    [buffer |-> EventSnapshotBufferInner_with_capacity(max_buffer_size),
     max_buffer_size |-> max_buffer_size]

EventSnapshotBuffer_len(self) == EventSnapshotBufferInner_len(self.buffer)

EventSnapshotBuffer_latest_snapshot(self) ==
    EventSnapshotBufferInner_latest_snapshot(self.buffer)

EventSnapshotBuffer_latest_snapshot_tick(self) ==
    EventSnapshotBufferInner_latest_snapshot_tick(self.buffer)

\* mutant: the front entry is evicted only when the buffer is over its capacity
EventSnapshotBuffer_evicts_WhenOver(self) ==
    /\ self.max_buffer_size # 0
    /\ Len(self.buffer.buffer) > self.max_buffer_size

\* the insert evicts the front entry
EventSnapshotBuffer_evicts(self) ==
    /\ self.max_buffer_size # 0
    /\ Len(self.buffer.buffer) >= self.max_buffer_size

EventSnapshotBuffer_insert(self, event, tick) ==
    IF self.max_buffer_size = 0 THEN self
    ELSE LET kept == IF EventSnapshotBuffer_evicts(self)
                     THEN EventSnapshotBufferInner_pop_front(self.buffer)
                     ELSE self.buffer
         IN [self EXCEPT
               !.buffer = EventSnapshotBufferInner_insert(kept, EventSnapshot(event, tick))]

EventSnapshotBuffer_iter(self) == EventSnapshotBufferInner_iter(self.buffer)

EventSnapshotBuffer_sort_with_id(self) ==
    [self EXCEPT !.buffer = EventSnapshotBufferInner_sort_with_index(self.buffer)]

EventSnapshotBuffer_frontier(self) ==
    LET r == EventSnapshotBufferInner_frontier(self.buffer)
    IN <<[self EXCEPT !.buffer = r[1]], r[2]>>

(* ---- EventSnapshotClientMap ---- *)

\* the HashMap is a function whose domain is the set of clients with a buffer
EventSnapshotClientMap_new(max_buffer_size) ==
    [buffer |-> [c \in {} |-> 0], max_buffer_size |-> max_buffer_size]

EventSnapshotClientMap_clients_count(self) == Cardinality(DOMAIN self.buffer)

EventSnapshotClientMap_len(self, client_id) ==
    IF client_id \in DOMAIN self.buffer
    THEN EventSnapshotBufferInner_len(self.buffer[client_id])
    ELSE 0

EventSnapshotClientMap_latest_snapshot(self, client_id) ==
    IF client_id \in DOMAIN self.buffer
    THEN EventSnapshotBufferInner_latest_snapshot(self.buffer[client_id])
    ELSE <<>>

EventSnapshotClientMap_latest_snapshot_tick(self, client_id) ==
    IF client_id \in DOMAIN self.buffer
    THEN EventSnapshotBufferInner_latest_snapshot_tick(self.buffer[client_id])
    ELSE 0

\* mutant: a client without a buffer gets a map of its own
EntryOrInsert_NewMap(self, client_id) ==
    IF client_id \in DOMAIN self.buffer THEN self.buffer
    ELSE (client_id :> EventSnapshotBufferInner_with_capacity(self.max_buffer_size))

\* HashMap::entry(id).or_insert(with_capacity(max_buffer_size))
EntryOrInsert(self, client_id) ==
    IF client_id \in DOMAIN self.buffer THEN self.buffer
    ELSE self.buffer @@
           (client_id :> EventSnapshotBufferInner_with_capacity(self.max_buffer_size))

\* mutant: the check for a capacity of 0 is left out
EventSnapshotClientMap_insert_NoZeroCheck(self, client_id, event, tick) ==
    LET map == EntryOrInsert(self, client_id)
        history == map[client_id]
        kept == IF Len(history.buffer) >= self.max_buffer_size
                THEN EventSnapshotBufferInner_pop_front(history)
                ELSE history
    IN [self EXCEPT
          !.buffer = [map EXCEPT ![client_id] =
             EventSnapshotBufferInner_insert(kept, EventSnapshot(event, tick))]]

\* mutant: the front entry is evicted only when the buffer is over capacity
EventSnapshotClientMap_insert_EvictsWhenOver(self, client_id, event, tick) ==
    LET map == EntryOrInsert(self, client_id)
        history == map[client_id]
    IN IF self.max_buffer_size = 0 THEN [self EXCEPT !.buffer = map]
       ELSE LET kept == IF Len(history.buffer) > self.max_buffer_size
                        THEN EventSnapshotBufferInner_pop_front(history)
                        ELSE history
            IN [self EXCEPT
                  !.buffer = [map EXCEPT ![client_id] =
                     EventSnapshotBufferInner_insert(kept, EventSnapshot(event, tick))]]

EventSnapshotClientMap_insert(self, client_id, event, tick) ==
    LET map == EntryOrInsert(self, client_id)
        history == map[client_id]
    IN IF self.max_buffer_size = 0 THEN [self EXCEPT !.buffer = map]
       ELSE LET kept == IF Len(history.buffer) >= self.max_buffer_size
                        THEN EventSnapshotBufferInner_pop_front(history)
                        ELSE history
            IN [self EXCEPT
                  !.buffer = [map EXCEPT ![client_id] =
                     EventSnapshotBufferInner_insert(kept, EventSnapshot(event, tick))]]

\* iter: <<the map after the call, the range returned>>
EventSnapshotClientMap_iter(self, client_id) ==
    LET map == EntryOrInsert(self, client_id)
    IN <<[self EXCEPT !.buffer = map],
         EventSnapshotBufferInner_iter(map[client_id])>>

\* mutant: the buffers of all clients are sorted
EventSnapshotClientMap_sort_with_id_AllClients(self, client_id) ==
    LET map == EntryOrInsert(self, client_id)
    IN [self EXCEPT
          !.buffer = [c \in DOMAIN map |->
             EventSnapshotBufferInner_sort_with_index(map[c])]]

EventSnapshotClientMap_sort_with_id(self, client_id) ==
    LET map == EntryOrInsert(self, client_id)
    IN [self EXCEPT
          !.buffer = [map EXCEPT ![client_id] =
             EventSnapshotBufferInner_sort_with_index(map[client_id])]]

\* mutant: a client without a buffer gets the empty range and no buffer
EventSnapshotClientMap_frontier_NoEntry(self, client_id) ==
    IF client_id \notin DOMAIN self.buffer THEN <<self, <<>>>>
    ELSE LET r == EventSnapshotBufferInner_frontier(self.buffer[client_id])
         IN <<[self EXCEPT !.buffer = [self.buffer EXCEPT ![client_id] = r[1]]],
              r[2]>>

EventSnapshotClientMap_frontier(self, client_id) ==
    LET map == EntryOrInsert(self, client_id)
        r == EventSnapshotBufferInner_frontier(map[client_id])
    IN <<[self EXCEPT !.buffer = [map EXCEPT ![client_id] = r[1]]], r[2]>>

(* ---- interpolation ---- *)

\* trait Interpolate: the blend a value type supplies, here the linear one;
\* t is tnum / UnitsPerSecond
Interpolate_interpolate(self, other, tnum) ==
    self + ((other - self) * tnum) \div UnitsPerSecond

\* (elapsed / tick_duration).clamp(0.0, 1.0), as a multiple of 1/UnitsPerSecond,
\* with tick_duration = 1.0 / server_tick_rate
BlendFactor(elapsed, tick_rate) ==
    Min(Max(elapsed * tick_rate, 0), UnitsPerSecond)

\* mutant: no frame of slack, elapsed > tick_duration
Stalled_NoSlack(elapsed, delta_time, tick_rate) ==
    elapsed * tick_rate > UnitsPerSecond

\* elapsed > tick_duration + delta_time, both sides multiplied by
\* server_tick_rate * UnitsPerSecond
Stalled(elapsed, delta_time, tick_rate) ==
    elapsed * tick_rate > UnitsPerSecond + delta_time * tick_rate

\* the entities the query of interpolate_replication_system yields
InterpolationQuery == interpolated_replication \ owner_controlling

\* mutant: the two snapshots are blended in the wrong order
Interpolated_Swapped(entity) ==
    LET snapshot_buffer == entity.snapshot_buffer
        buff_len == ComponentSnapshotBuffer_len(snapshot_buffer)
        elapsed == ComponentSnapshotBuffer_age(snapshot_buffer)
    IN IF buff_len < 2 THEN entity.component
       ELSE IF Stalled(elapsed, delta_seconds, server_tick_rate) THEN entity.component
       ELSE LET t == BlendFactor(elapsed, server_tick_rate)
                latest == snapshot_buffer.buffer[buff_len]
                second == snapshot_buffer.buffer[buff_len - 1]
            IN Interpolate_interpolate(latest.component, second.component, t)

\* mutant: a buffer of one snapshot snaps the component to it
Interpolated_SnapsToSingle(entity) ==
    LET snapshot_buffer == entity.snapshot_buffer
        buff_len == ComponentSnapshotBuffer_len(snapshot_buffer)
        elapsed == ComponentSnapshotBuffer_age(snapshot_buffer)
    IN IF buff_len < 1 THEN entity.component
       ELSE IF buff_len < 2 THEN snapshot_buffer.buffer[1].component
       ELSE IF Stalled(elapsed, delta_seconds, server_tick_rate) THEN entity.component
       ELSE LET t == BlendFactor(elapsed, server_tick_rate)
                latest == snapshot_buffer.buffer[buff_len]
                second == snapshot_buffer.buffer[buff_len - 1]
            IN Interpolate_interpolate(second.component, latest.component, t)

\* one turn of the loop of interpolate_replication_system: the component the
\* entity has after it
Interpolated(entity) ==
    LET snapshot_buffer == entity.snapshot_buffer
        buff_len == ComponentSnapshotBuffer_len(snapshot_buffer)
        elapsed == ComponentSnapshotBuffer_age(snapshot_buffer)
    IN IF buff_len < 2 THEN entity.component
       ELSE IF Stalled(elapsed, delta_seconds, server_tick_rate) THEN entity.component
       ELSE LET t == BlendFactor(elapsed, server_tick_rate)
                latest == snapshot_buffer.buffer[buff_len]
                second == snapshot_buffer.buffer[buff_len - 1]
            IN Interpolate_interpolate(second.component, latest.component, t)

\* whether that turn reaches the assignment to *component
Interpolates(entity) ==
    /\ ComponentSnapshotBuffer_len(entity.snapshot_buffer) >= 2
    /\ ~Stalled(ComponentSnapshotBuffer_age(entity.snapshot_buffer),
                delta_seconds, server_tick_rate)

(* ---- history ---- *)

Range(s) == {s[i] : i \in 1..Len(s)}

\* the numbers of the entries in the order sort_with_index leaves the entries
SortedOrder(buffer, numbers) ==
    LET numbered == [i \in 1..Len(buffer) |->
                       [index |-> buffer[i].index, number |-> numbers[i]]]
        sorted == sort_by_key(numbered, "index")
    IN [i \in 1..Len(buffer) |-> sorted[i].number]

\* the positions of the entries a frontier call returns
FrontierRange(self) ==
    IF FrontierBegin(self) = 0 THEN {}
    ELSE FrontierBegin(self)..Len(self.buffer)

\* the insert stores the event
EventSnapshotBuffer_stores(self, event, tick) ==
    /\ self.max_buffer_size # 0
    /\ EventSnapshotBufferInner_accepts(self.buffer, EventSnapshot(event, tick))

\* the call is made on the map for a client that has no buffer yet
Creates(client_id) ==
    obj = "EventSnapshotClientMap" /\ client_id \notin DOMAIN cm.buffer

\* target: the client or the entity the call is about; again: the call before
\* it was a frontier call on the same buffer and this one is too; created:
\* the call created the client's buffer
Call(op, tick, dt) ==
    [op |-> op, tick |-> tick, dt |-> dt, index |-> 0, target |-> "none",
     again |-> FALSE, created |-> FALSE]

EventCall(op, client_id, index, tick) ==
    [op |-> op, tick |-> tick, dt |-> 0, index |-> index, target |-> client_id,
     again |-> FALSE, created |-> Creates(client_id)]

FrontierCall(client_id) ==
    [op |-> "frontier", tick |-> 0, dt |-> 0, index |-> 0, target |-> client_id,
     again |-> call.op = "frontier" /\ call.target = client_id,
     created |-> Creates(client_id)]

NoInserts == [n |-> 0, max |-> 0, increasing |-> TRUE]

NoteInsert(h, tick) ==
    [n |-> Min(h.n + 1, 2),
     max |-> Max(h.max, tick),
     increasing |-> h.increasing /\ (h.n = 0 \/ tick > h.max)]

(* ---- one standalone object per run ---- *)

\* a run constructs one object, with some capacity, and then calls its methods
InitHistory ==
    /\ mapInserts = 0
    /\ result = <<>>
    /\ accepted = <<>>
    /\ inserted = NoInserts
    /\ order = <<>>
    /\ stored = 0
    /\ consumed = {}
    /\ returned = {}
    /\ alone = [c \in ClientIds |-> EventSnapshotBuffer_new(cm.max_buffer_size)]
    /\ aloneResult = <<>>
    /\ call = Call("new", 0, 0)

NoPopulate ==
    /\ debug_assertions = FALSE
    /\ server_entity_ticks = [e \in {} |-> 0]
    /\ changed = {}
    /\ panicked = FALSE
    /\ event_buffers = [e \in Entities |-> EventSnapshotBuffer_new(0)]
    /\ populates = 0

NoPrediction ==
    /\ network_owner = [e \in {} |-> 0]
    /\ predicted = {}
    /\ added_predicted = {}
    /\ transport_client_id = 1
    /\ commands = {}

NoWorld ==
    /\ NoPopulate
    /\ NoPrediction
    /\ world = [e \in Entities |->
                 [component |-> 0,
                  snapshot_buffer |-> ComponentSnapshotBuffer_with_capacity(0)]]
    /\ interpolated_replication = {}
    /\ owner_controlling = {}
    /\ delta_seconds = 0
    /\ server_tick_rate = 10
    /\ written = {}
    /\ worldInserts = 0

InitComponent ==
    /\ obj = "ComponentSnapshotBuffer"
    /\ \E n \in Capacities : cb = ComponentSnapshotBuffer_with_capacity(n)
    /\ eb = EventSnapshotBuffer_new(0)
    /\ cm = EventSnapshotClientMap_new(0)
    /\ NoWorld
    /\ InitHistory

InitEvent ==
    /\ obj = "EventSnapshotBuffer"
    /\ cb = ComponentSnapshotBuffer_with_capacity(0)
    /\ \E n \in EventCapacities : eb = EventSnapshotBuffer_new(n)
    /\ cm = EventSnapshotClientMap_new(0)
    /\ NoWorld
    /\ InitHistory

InitMap ==
    /\ obj = "EventSnapshotClientMap"
    /\ cb = ComponentSnapshotBuffer_with_capacity(0)
    /\ eb = EventSnapshotBuffer_new(0)
    /\ \E n \in EventCapacities : cm = EventSnapshotClientMap_new(n)
    /\ NoWorld
    /\ InitHistory

Init == InitComponent \/ InitEvent \/ InitMap

ComponentInsert ==
    /\ obj = "ComponentSnapshotBuffer"
    /\ \E component \in Values, tick \in Ticks :
         /\ ComponentSnapshotBuffer_accepts(cb, tick) => Len(accepted) < MaxInserts
         /\ cb' = ComponentSnapshotBuffer_insert(cb, component, tick)
         /\ accepted' = IF ComponentSnapshotBuffer_accepts(cb, tick)
                        THEN Append(accepted, ComponentSnapshot(component, tick))
                        ELSE accepted
         /\ inserted' = NoteInsert(inserted, tick)
         /\ call' = Call("insert", tick, 0)
    /\ UNCHANGED <<obj, eb, cm, mapInserts, result, eventHistory, mapHistory,
                   worldVars>>

ComponentAddAge ==
    /\ obj = "ComponentSnapshotBuffer"
    /\ \E add \in DeltaTimes :
         /\ cb.time_since_last_snapshot + add <= MaxAge
         /\ cb' = ComponentSnapshotBuffer_add_age(cb, add)
         /\ call' = Call("add_age", 0, add)
    /\ UNCHANGED <<obj, eb, cm, mapInserts, result, accepted, inserted,
                   eventHistory, mapHistory, worldVars>>

ComponentSortWithTick ==
    /\ obj = "ComponentSnapshotBuffer"
    /\ cb' = ComponentSnapshotBuffer_sort_with_tick(cb)
    /\ call' = Call("sort_with_tick", 0, 0)
    /\ UNCHANGED <<obj, eb, cm, mapInserts, result, accepted, inserted,
                   eventHistory, mapHistory, worldVars>>

EventInsert ==
    /\ obj = "EventSnapshotBuffer"
    /\ \E event \in Indices, tick \in EventTicks :
         LET stores == EventSnapshotBuffer_stores(eb, event, tick)
             kept == IF EventSnapshotBuffer_evicts(eb) THEN Tail(order) ELSE order
         IN /\ stores => stored < MaxEventInserts
            /\ eb' = EventSnapshotBuffer_insert(eb, event, tick)
            /\ order' = IF stores THEN Append(kept, stored + 1) ELSE kept
            /\ stored' = IF stores THEN stored + 1 ELSE stored
            /\ call' = EventCall("insert", "none", event, tick)
    /\ consumed' = (consumed \cup returned) \cap Range(order')
    /\ returned' = {}
    /\ result' = <<>>
    /\ UNCHANGED <<obj, cb, cm, mapInserts, accepted, inserted, mapHistory,
                   worldVars>>

EventSortWithId ==
    /\ obj = "EventSnapshotBuffer"
    /\ eb' = EventSnapshotBuffer_sort_with_id(eb)
    /\ order' = SortedOrder(eb.buffer.buffer, order)
    /\ consumed' = consumed \cup returned
    /\ returned' = {}
    /\ call' = EventCall("sort_with_id", "none", 0, 0)
    /\ result' = <<>>
    /\ UNCHANGED <<obj, cb, cm, mapInserts, accepted, inserted, stored,
                   mapHistory, worldVars>>

EventFrontier ==
    /\ obj = "EventSnapshotBuffer"
    /\ eb' = EventSnapshotBuffer_frontier(eb)[1]
    /\ result' = EventSnapshotBuffer_frontier(eb)[2]
    /\ consumed' = consumed \cup returned
    /\ returned' = {order[i] : i \in FrontierRange(eb.buffer)}
    /\ call' = FrontierCall("none")
    /\ UNCHANGED <<obj, cb, cm, mapInserts, accepted, inserted, order, stored,
                   mapHistory, worldVars>>

MapInsert ==
    /\ obj = "EventSnapshotClientMap"
    /\ mapInserts < MaxMapInserts
    /\ \E client_id \in ClientIds, event \in Indices, tick \in EventTicks :
         /\ cm' = EventSnapshotClientMap_insert(cm, client_id, event, tick)
         /\ alone' = [alone EXCEPT ![client_id] =
                         EventSnapshotBuffer_insert(@, event, tick)]
         /\ call' = EventCall("insert", client_id, event, tick)
    /\ mapInserts' = mapInserts + 1
    /\ result' = <<>>
    /\ aloneResult' = <<>>
    /\ UNCHANGED <<obj, cb, eb, accepted, inserted, eventHistory, worldVars>>

MapIter ==
    /\ obj = "EventSnapshotClientMap"
    /\ \E client_id \in ClientIds :
         /\ cm' = EventSnapshotClientMap_iter(cm, client_id)[1]
         /\ result' = EventSnapshotClientMap_iter(cm, client_id)[2]
         /\ aloneResult' = EventSnapshotBuffer_iter(alone[client_id])
         /\ alone' = alone
         /\ call' = EventCall("iter", client_id, 0, 0)
    /\ UNCHANGED <<obj, cb, eb, mapInserts, accepted, inserted, eventHistory,
                   worldVars>>

MapSortWithId ==
    /\ obj = "EventSnapshotClientMap"
    /\ \E client_id \in ClientIds :
         /\ cm' = EventSnapshotClientMap_sort_with_id(cm, client_id)
         /\ alone' = [alone EXCEPT ![client_id] =
                         EventSnapshotBuffer_sort_with_id(@)]
         /\ call' = EventCall("sort_with_id", client_id, 0, 0)
    /\ result' = <<>>
    /\ aloneResult' = <<>>
    /\ UNCHANGED <<obj, cb, eb, mapInserts, accepted, inserted, eventHistory,
                   worldVars>>

MapFrontier ==
    /\ obj = "EventSnapshotClientMap"
    /\ \E client_id \in ClientIds :
         /\ cm' = EventSnapshotClientMap_frontier(cm, client_id)[1]
         /\ result' = EventSnapshotClientMap_frontier(cm, client_id)[2]
         /\ alone' = [alone EXCEPT ![client_id] =
                         EventSnapshotBuffer_frontier(@)[1]]
         /\ aloneResult' = EventSnapshotBuffer_frontier(alone[client_id])[2]
         /\ call' = FrontierCall(client_id)
    /\ UNCHANGED <<obj, cb, eb, mapInserts, accepted, inserted, eventHistory,
                   worldVars>>

\* the calls that take &self: the map is read, not changed
MapLen ==
    /\ obj = "EventSnapshotClientMap"
    /\ \E client_id \in ClientIds :
         /\ result' = <<EventSnapshotClientMap_len(cm, client_id)>>
         /\ aloneResult' = <<EventSnapshotBuffer_len(alone[client_id])>>
         /\ call' = [EventCall("len", client_id, 0, 0) EXCEPT !.created = FALSE]
    /\ UNCHANGED <<obj, cb, eb, cm, alone, mapInserts, accepted, inserted,
                   eventHistory, worldVars>>

MapLatestSnapshot ==
    /\ obj = "EventSnapshotClientMap"
    /\ \E client_id \in ClientIds :
         /\ result' = EventSnapshotClientMap_latest_snapshot(cm, client_id)
         /\ aloneResult' = EventSnapshotBuffer_latest_snapshot(alone[client_id])
         /\ call' = [EventCall("latest_snapshot", client_id, 0, 0)
                        EXCEPT !.created = FALSE]
    /\ UNCHANGED <<obj, cb, eb, cm, alone, mapInserts, accepted, inserted,
                   eventHistory, worldVars>>

MapLatestSnapshotTick ==
    /\ obj = "EventSnapshotClientMap"
    /\ \E client_id \in ClientIds :
         /\ result' = <<EventSnapshotClientMap_latest_snapshot_tick(cm, client_id)>>
         /\ aloneResult' =
               <<EventSnapshotBuffer_latest_snapshot_tick(alone[client_id])>>
         /\ call' = [EventCall("latest_snapshot_tick", client_id, 0, 0)
                        EXCEPT !.created = FALSE]
    /\ UNCHANGED <<obj, cb, eb, cm, alone, mapInserts, accepted, inserted,
                   eventHistory, worldVars>>

NextComponent ==
    \/ ComponentInsert
    \/ ComponentAddAge
    \/ ComponentSortWithTick

NextEvent ==
    \/ EventInsert
    \/ EventSortWithId
    \/ EventFrontier

NextMap ==
    \/ MapInsert
    \/ MapIter
    \/ MapSortWithId
    \/ MapFrontier

\* the calls that only read a client's buffer
NextMapReads ==
    \/ MapLen
    \/ MapLatestSnapshot
    \/ MapLatestSnapshotTick

Next == NextComponent \/ NextEvent \/ NextMap

\* every kind of buffer
Spec == Init /\ [][Next]_vars

\* one kind of buffer
SpecComponent == InitComponent /\ [][NextComponent]_vars

SpecEvent == InitEvent /\ [][NextEvent]_vars

SpecMap == InitMap /\ [][NextMap]_vars

\* the map under every operation it has
SpecMapAll == InitMap /\ [][NextMap \/ NextMapReads]_vars

\* a caller that sorts right before it reads: frontier() is only called
\* directly after sort_with_id()
SortedFrontier ==
    /\ call.op = "sort_with_id"
    /\ EventFrontier

NextEventSorted ==
    \/ EventInsert
    \/ EventSortWithId
    \/ SortedFrontier

SpecEventSorted == InitEvent /\ [][NextEventSorted]_vars

(* ---- a world of entities, each with a component and its snapshot buffer ---- *)

\* entity1 is interpolated and not owner-controlled; entity2 is any kind
InitWorld ==
    /\ obj = "World"
    /\ NoPopulate
    /\ NoPrediction
    /\ cb = ComponentSnapshotBuffer_with_capacity(0)
    /\ eb = EventSnapshotBuffer_new(0)
    /\ cm = EventSnapshotClientMap_new(0)
    /\ InitHistory
    /\ \E n \in WorldCapacities :
         world = [e \in Entities |->
                    [component |-> 0,
                     snapshot_buffer |-> ComponentSnapshotBuffer_with_capacity(n)]]
    /\ interpolated_replication \in {{"entity1"}, Entities}
    /\ owner_controlling \in {{}, {"entity2"}}
    /\ delta_seconds = 0
    /\ server_tick_rate \in ServerTickRates
    /\ written = {}
    /\ worldInserts = 0

\* a snapshot received for an entity goes into its buffer
WorldInsert ==
    /\ worldInserts < MaxWorldInserts
    /\ \E e \in Entities, component \in Values, tick \in WorldTicks :
         /\ world' = [world EXCEPT ![e].snapshot_buffer =
                        ComponentSnapshotBuffer_insert(@, component, tick)]
         /\ call' = EventCall("insert", e, 0, tick)
    /\ worldInserts' = worldInserts + 1
    /\ written' = {}
    /\ UNCHANGED <<obj, bufferVars, predictionVars, populateVars, interpolated_replication,
                   owner_controlling, delta_seconds, server_tick_rate>>

\* the host starts a frame: Time gets the frame's delta
TimeUpdate ==
    /\ \E dt \in DeltaTimes : delta_seconds' = dt
    /\ call' = Call("time_update", 0, 0)
    /\ written' = {}
    /\ UNCHANGED <<obj, bufferVars, predictionVars, populateVars, world,
                   interpolated_replication, owner_controlling,
                   server_tick_rate, worldInserts>>

interpolate_replication_system ==
    /\ world' = [e \in Entities |->
                   IF e \in InterpolationQuery
                   THEN [world[e] EXCEPT !.component = Interpolated(world[e])]
                   ELSE world[e]]
    /\ written' = {e \in InterpolationQuery : Interpolates(world[e])}
    /\ call' = Call("interpolate_replication_system", 0, 0)
    /\ UNCHANGED <<obj, bufferVars, predictionVars, populateVars, interpolated_replication,
                   owner_controlling, delta_seconds, server_tick_rate, worldInserts>>

add_snapshots_age_system ==
    /\ \A e \in Entities :
         world[e].snapshot_buffer.time_since_last_snapshot + delta_seconds
             <= MaxWorldAge
    /\ world' = [e \in Entities |->
                   [world[e] EXCEPT !.snapshot_buffer =
                      ComponentSnapshotBuffer_add_age(@, delta_seconds)]]
    /\ written' = {}
    /\ call' = Call("add_snapshots_age_system", 0, 0)
    /\ UNCHANGED <<obj, bufferVars, predictionVars, populateVars, interpolated_replication,
                   owner_controlling, delta_seconds, server_tick_rate, worldInserts>>

NextWorld ==
    \/ WorldInsert
    \/ TimeUpdate
    \/ interpolate_replication_system
    \/ add_snapshots_age_system

SpecWorld == InitWorld /\ [][NextWorld]_vars

\* this buffer stores a tick only when it is above the latest, which starts
\* at 0: two entries take ticks up to 2
StallTicks == 0..(MaxWorldTick + 1)

\* the same world with the buffer of snapshots::components: a snapshot
\* received for an entity goes into its buffer
WorldInsertComponents ==
    /\ \E e \in Entities, component \in Values, tick \in StallTicks :
         /\ tick > world[e].snapshot_buffer.latest_snapshot_tick
               => worldInserts < MaxWorldInserts
         /\ world' = [world EXCEPT ![e].snapshot_buffer =
                        components_ComponentSnapshotBuffer_insert(@, component, tick)]
         /\ worldInserts' =
               IF tick > world[e].snapshot_buffer.latest_snapshot_tick
               THEN worldInserts + 1
               ELSE worldInserts
         /\ call' = EventCall("insert", e, 0, tick)
    /\ written' = {}
    /\ UNCHANGED <<obj, bufferVars, predictionVars, populateVars, interpolated_replication,
                   owner_controlling, delta_seconds, server_tick_rate>>

NextStall ==
    \/ WorldInsertComponents
    \/ TimeUpdate
    \/ interpolate_replication_system
    \/ add_snapshots_age_system

\* the worlds in which a buffer can come to hold two entries and every
\* entity is interpolated
InitStall ==
    /\ InitWorld
    /\ \A e \in Entities : world[e].snapshot_buffer.max_buffer_size >= 2
    /\ interpolated_replication = Entities
    /\ owner_controlling = {}

SpecStall == InitStall /\ [][NextStall]_vars

(* ---- prediction: which entities the local client controls ---- *)

\* the ids a NetworkOwner or the local transport may carry
OwnerIds == {1, 2}

\* every assignment of a NetworkOwner to some of the entities
NetworkOwners == UNION {[S -> OwnerIds] : S \in SUBSET Entities}

\* mutant: every newly Predicted entity with a NetworkOwner is taken
OwnedByClient_AnyOwner(added, owners, id) == added \cap DOMAIN owners

\* the entities of Query<(Entity, &NetworkOwner), Added<Predicted>> that pass
\* o.get() == transport.client_id().raw()
OwnedByClient(added, owners, id) ==
    {e \in added \cap DOMAIN owners : owners[e] = id}

InitPrediction ==
    /\ obj = "World"
    /\ NoPopulate
    /\ cb = ComponentSnapshotBuffer_with_capacity(0)
    /\ eb = EventSnapshotBuffer_new(0)
    /\ cm = EventSnapshotClientMap_new(0)
    /\ InitHistory
    /\ world = [e \in Entities |->
                  [component |-> 0,
                   snapshot_buffer |->
                      ComponentSnapshotBuffer_with_capacity(MaxWorldCap)]]
    /\ interpolated_replication \in {{"entity1"}, Entities}
    /\ owner_controlling = {}
    /\ delta_seconds = 0
    /\ server_tick_rate = 10
    /\ written = {}
    /\ worldInserts = 0
    /\ network_owner \in NetworkOwners
    /\ predicted = {}
    /\ added_predicted = {}
    /\ transport_client_id \in OwnerIds
    /\ commands = {}

\* an entity gets the Predicted component
PredictedAdded ==
    /\ \E e \in Entities \ predicted :
         /\ predicted' = predicted \cup {e}
         /\ added_predicted' = added_predicted \cup {e}
         /\ call' = EventCall("insert_predicted", e, 0, 0)
    /\ written' = {}
    /\ UNCHANGED <<obj, bufferVars, populateVars, world,
                   interpolated_replication, owner_controlling, delta_seconds,
                   server_tick_rate, worldInserts, network_owner,
                   transport_client_id, commands>>

init_prediction ==
    /\ commands' = commands \cup
                     OwnedByClient(added_predicted, network_owner,
                                   transport_client_id)
    /\ added_predicted' = {}
    /\ written' = {}
    /\ call' = Call("init_prediction", 0, 0)
    /\ UNCHANGED <<obj, bufferVars, populateVars, world,
                   interpolated_replication, owner_controlling, delta_seconds,
                   server_tick_rate, worldInserts, network_owner, predicted,
                   transport_client_id>>

\* the schedule applies the queued commands
apply_deferred ==
    /\ owner_controlling' = owner_controlling \cup commands
    /\ commands' = {}
    /\ written' = {}
    /\ call' = Call("apply_deferred", 0, 0)
    /\ UNCHANGED <<obj, bufferVars, populateVars, world,
                   interpolated_replication, delta_seconds, server_tick_rate,
                   worldInserts, network_owner, predicted, added_predicted,
                   transport_client_id>>

NextPrediction ==
    \/ PredictedAdded
    \/ init_prediction
    \/ apply_deferred
    \/ WorldInsert
    \/ interpolate_replication_system

SpecPrediction == InitPrediction /\ [][NextPrediction]_vars

(* ---- the client's populate systems ---- *)

\* the orders in which a query may yield the entities of set S
Orders(S) ==
    {yielded \in [1..Cardinality(S) -> S] :
       \A i, j \in 1..Cardinality(S) : yielded[i] = yielded[j] => i = j}

\* the sequences of 1..MaxEventsRead events an EventReader may hold
EventsRead ==
    UNION {[1..n -> Indices] : n \in 1..MaxEventsRead}

\* mutant: an entity without a mapped tick is skipped in every build
OnUnmappedTick_Skips(debug) == "warn"

\* the None arm of the match on server_ticks.get(&e)
OnUnmappedTick(debug) == IF debug THEN "panic" ELSE "warn"

\* the loop of client_populate_component_buffer over the entities the query
\* yields, in that order: the world it leaves and whether it panicked
RECURSIVE PopulateComponentBuffers(_, _, _, _)
PopulateComponentBuffers(w, yielded, ticks, debug) ==
    IF yielded = <<>> THEN [world |-> w, panicked |-> FALSE]
    ELSE LET e == Head(yielded)
         IN IF e \in DOMAIN ticks
            THEN PopulateComponentBuffers(
                   [w EXCEPT ![e].snapshot_buffer =
                      ComponentSnapshotBuffer_insert(@, w[e].component, ticks[e])],
                   Tail(yielded), ticks, debug)
            ELSE IF OnUnmappedTick(debug) = "panic"
            THEN [world |-> w, panicked |-> TRUE]
            ELSE PopulateComponentBuffers(w, Tail(yielded), ticks, debug)

\* the inner loop of client_populate_client_event_buffer for one event
RECURSIVE PopulateEvent(_, _, _, _, _)
PopulateEvent(buffers, event, yielded, ticks, debug) ==
    IF yielded = <<>> THEN [buffers |-> buffers, panicked |-> FALSE]
    ELSE LET e == Head(yielded)
         IN IF e \in DOMAIN ticks
            THEN PopulateEvent(
                   [buffers EXCEPT ![e] =
                      EventSnapshotBuffer_insert(@, event, ticks[e])],
                   event, Tail(yielded), ticks, debug)
            ELSE IF OnUnmappedTick(debug) = "panic"
            THEN [buffers |-> buffers, panicked |-> TRUE]
            ELSE PopulateEvent(buffers, event, Tail(yielded), ticks, debug)

\* the outer loop of client_populate_client_event_buffer over the events read
RECURSIVE PopulateEventBuffers(_, _, _, _, _)
PopulateEventBuffers(buffers, events, yielded, ticks, debug) ==
    IF events = <<>> THEN [buffers |-> buffers, panicked |-> FALSE]
    ELSE LET one == PopulateEvent(buffers, Head(events), yielded, ticks, debug)
         IN IF one.panicked THEN one
            ELSE PopulateEventBuffers(one.buffers, Tail(events), yielded, ticks,
                                      debug)

\* a client world: every entity has a component with its snapshot buffer and
\* an event buffer; some entities have a server tick mapped. The two populate
\* systems share no state but the ticks: a run drives one of them.
InitPopulate ==
    /\ obj \in {"ClientComponents", "ClientEvents"}
    /\ NoPrediction
    /\ cb = ComponentSnapshotBuffer_with_capacity(0)
    /\ eb = EventSnapshotBuffer_new(0)
    /\ cm = EventSnapshotClientMap_new(0)
    /\ InitHistory
    /\ \E n \in 0..MaxPopulateCap :
         /\ world = [e \in Entities |->
                       [component |-> 0,
                        snapshot_buffer |-> ComponentSnapshotBuffer_with_capacity(n)]]
         /\ event_buffers = [e \in Entities |-> EventSnapshotBuffer_new(n)]
    /\ interpolated_replication = {}
    /\ owner_controlling = {}
    /\ delta_seconds = 0
    /\ server_tick_rate = 10
    /\ written = {}
    /\ worldInserts = 0
    /\ debug_assertions \in BOOLEAN
    /\ \E mapped \in SUBSET Entities :
         server_entity_ticks \in [mapped -> WorldTicks]
    /\ changed = {}
    /\ panicked = FALSE
    /\ populates = 0

\* the host changes the component of an entity
ComponentChanged ==
    /\ obj = "ClientComponents"
    /\ ~panicked
    /\ \E e \in Entities, component \in Values :
         /\ world' = [world EXCEPT ![e].component = component]
         /\ changed' = changed \cup {e}
         /\ call' = Call("component_changed", 0, 0)
    /\ UNCHANGED <<obj, bufferVars, predictionVars, interpolated_replication, owner_controlling,
                   delta_seconds, server_tick_rate, written, worldInserts,
                   debug_assertions, server_entity_ticks, panicked,
                   event_buffers, populates>>

\* replication maps a server tick to an entity
ServerTickMapped ==
    /\ ~panicked
    /\ \E e \in Entities, tick \in WorldTicks :
         /\ e \in DOMAIN server_entity_ticks => tick >= server_entity_ticks[e]
         /\ server_entity_ticks' =
               [x \in DOMAIN server_entity_ticks \cup {e} |->
                  IF x = e THEN tick ELSE server_entity_ticks[x]]
         /\ call' = Call("server_tick_mapped", 0, 0)
    /\ UNCHANGED <<obj, bufferVars, predictionVars, world, interpolated_replication,
                   owner_controlling, delta_seconds, server_tick_rate, written,
                   worldInserts, debug_assertions, changed, panicked,
                   event_buffers, populates>>

client_populate_component_buffer ==
    /\ obj = "ClientComponents"
    /\ ~panicked
    /\ populates < MaxPopulates
    /\ \E yielded \in Orders(changed) :
         LET done == PopulateComponentBuffers(world, yielded, server_entity_ticks,
                                              debug_assertions)
         IN /\ world' = done.world
            /\ panicked' = done.panicked
    /\ changed' = {}
    /\ populates' = populates + 1
    /\ call' = Call("client_populate_component_buffer", 0, 0)
    /\ UNCHANGED <<obj, bufferVars, predictionVars, interpolated_replication, owner_controlling,
                   delta_seconds, server_tick_rate, written, worldInserts,
                   debug_assertions, server_entity_ticks, event_buffers>>

client_populate_client_event_buffer ==
    /\ obj = "ClientEvents"
    /\ ~panicked
    /\ populates < MaxPopulates
    /\ \E events \in EventsRead, yielded \in Orders(Entities) :
         LET done == PopulateEventBuffers(event_buffers, events, yielded,
                                          server_entity_ticks, debug_assertions)
         IN /\ event_buffers' = done.buffers
            /\ panicked' = done.panicked
    /\ populates' = populates + 1
    /\ call' = Call("client_populate_client_event_buffer", 0, 0)
    /\ UNCHANGED <<obj, bufferVars, predictionVars, world, interpolated_replication,
                   owner_controlling, delta_seconds, server_tick_rate, written,
                   worldInserts, debug_assertions, server_entity_ticks, changed>>

NextPopulate ==
    \/ ComponentChanged
    \/ ServerTickMapped
    \/ client_populate_component_buffer
    \/ client_populate_client_event_buffer

SpecPopulate == InitPopulate /\ [][NextPopulate]_vars

(* ======================== claims ======================== *)

IsComponentBuffer == obj = "ComponentSnapshotBuffer"

\* the last n elements of s (all of s when it is shorter)
LastN(s, n) == SubSeq(s, Len(s) - Min(Len(s), n) + 1, Len(s))

\* C1: for every capacity N >= 1, whatever insert, add_age and sort_with_tick
\* calls were made, len() never exceeds N.
C1_LenWithinCapacity ==
    (IsComponentBuffer /\ cb.max_buffer_size >= 1)
        => ComponentSnapshotBuffer_len(cb) <= cb.max_buffer_size

\* a full buffer that has already evicted an entry, right after an insert
C1_Witness ==
    /\ IsComponentBuffer
    /\ cb.max_buffer_size >= 2
    /\ ComponentSnapshotBuffer_len(cb) = cb.max_buffer_size
    /\ Len(accepted) > cb.max_buffer_size
    /\ call.op = "insert"

\* C2 (as claimed): an insert whose tick is <= latest_snapshot_tick, a tick
\* equal to it included, changes neither the stored sequence (hence len())
\* nor latest_snapshot_tick.
C2_StaleOrEqualTickRejected ==
    [][(IsComponentBuffer /\ call'.op = "insert"
          /\ call'.tick <= cb.latest_snapshot_tick)
        => (cb'.buffer = cb.buffer
              /\ cb'.latest_snapshot_tick = cb.latest_snapshot_tick)]_vars

\* the buffer is the tail of the history of stored snapshots
C3_Fifo ==
    (IsComponentBuffer /\ cb.max_buffer_size >= 1)
        => cb.buffer = LastN(accepted, cb.max_buffer_size)

\* the scenario of capacity 3 and ticks 10,20,30,40 then 25, for any four
\* increasing ticks and any later tick below the last of them
C3_Scenario ==
    (/\ IsComponentBuffer
     /\ cb.max_buffer_size = 3
     /\ Len(accepted) = 4
     /\ \A i \in 1..3 : accepted[i].tick < accepted[i + 1].tick)
        => /\ Len(cb.buffer) = 3
           /\ \A i \in 1..3 : cb.buffer[i] = accepted[i + 1]
           /\ (call'.op = "insert" /\ call'.tick < accepted[4].tick
                 => cb'.buffer = cb.buffer)

\* C3: for capacity N >= 1 the stored sequence is exactly the last min(k, N)
\* stored snapshots in the order they were stored (k = number of accepted
\* inserts): an accepted insert into a full buffer removes the oldest entry
\* and appends the new one; once four increasing ticks went into a buffer of
\* capacity 3 it holds the last three, and an insert of a smaller tick leaves
\* it as it is.
C3_LastAcceptedKept == [](C3_Fifo) /\ [][C3_Scenario]_vars

\* capacity 3 after a fourth accepted insert of increasing ticks, then a
\* rejected insert of an older tick
C3_Witness ==
    /\ IsComponentBuffer
    /\ cb.max_buffer_size = 3
    /\ Len(accepted) = 4
    /\ \A i \in 1..3 : accepted[i].tick < accepted[i + 1].tick
    /\ cb.buffer = SubSeq(accepted, 2, 4)
    /\ call.op = "insert"
    /\ call.tick < accepted[4].tick
    /\ call.tick > accepted[2].tick

LatestIsMaxInserted ==
    /\ cb.latest_snapshot_tick = inserted.max
    /\ (ComponentSnapshotBuffer_len(cb) > 0
          => ComponentSnapshotBuffer_latest_snapshot(cb)[1].tick
               = ComponentSnapshotBuffer_latest_snapshot_tick(cb))

\* C4 (as claimed): after inserts with strictly increasing ticks,
\* latest_snapshot_tick is the maximum tick inserted so far (0 before any
\* insert) and, when the buffer is not empty, the tick of latest_snapshot().
C4_LatestTickIsMax ==
    (IsComponentBuffer /\ inserted.increasing) => LatestIsMaxInserted

\* C4 (amended): the same, for a buffer of capacity N >= 1.
C4_LatestTickIsMaxWithCapacity ==
    (IsComponentBuffer /\ inserted.increasing /\ cb.max_buffer_size >= 1)
        => LatestIsMaxInserted

\* three strictly increasing ticks went into a buffer that holds two
C4_Witness ==
    /\ IsComponentBuffer
    /\ inserted.increasing
    /\ cb.max_buffer_size = 2
    /\ Len(accepted) = 3
    /\ cb.latest_snapshot_tick = accepted[3].tick
    /\ cb.latest_snapshot_tick > 0

\* C5: with capacity 0 every insert is dropped: whatever was inserted, len()
\* is 0 and latest_snapshot_tick is 0, for the component buffer, the event
\* buffer and the buffer of every client of the map.
C5_ZeroCapacityDropsAll ==
    /\ (obj = "ComponentSnapshotBuffer" /\ cb.max_buffer_size = 0)
          => /\ ComponentSnapshotBuffer_len(cb) = 0
             /\ ComponentSnapshotBuffer_latest_snapshot_tick(cb) = 0
    /\ (obj = "EventSnapshotBuffer" /\ eb.max_buffer_size = 0)
          => /\ EventSnapshotBuffer_len(eb) = 0
             /\ EventSnapshotBuffer_latest_snapshot_tick(eb) = 0
    /\ (obj = "EventSnapshotClientMap" /\ cm.max_buffer_size = 0)
          => \A c \in ClientIds :
               /\ EventSnapshotClientMap_len(cm, c) = 0
               /\ EventSnapshotClientMap_latest_snapshot_tick(cm, c) = 0
               /\ c \in DOMAIN cm.buffer => cm.buffer[c].buffer = <<>>

\* a map of capacity 0 after an insert of a tick above 0 for each client
C5_Witness ==
    /\ obj = "EventSnapshotClientMap"
    /\ cm.max_buffer_size = 0
    /\ mapInserts = 2
    /\ DOMAIN cm.buffer = ClientIds
    /\ call.op = "insert"
    /\ call.tick > 0

AgeOf(w, e) == w[e].snapshot_buffer.time_since_last_snapshot

\* what one step does to the age of each buffer
C6_Age ==
    \A e \in Entities :
      LET b == world[e].snapshot_buffer
          inserts == call'.op = "insert" /\ call'.target = e
          stores == /\ inserts
                    /\ b.max_buffer_size # 0
                    /\ call'.tick >= b.latest_snapshot_tick
          ages == call'.op = "add_snapshots_age_system"
      IN /\ stores => AgeOf(world', e) = 0
         /\ (inserts /\ ~stores) => AgeOf(world', e) = AgeOf(world, e)
         /\ ages => AgeOf(world', e) = AgeOf(world, e) + delta_seconds
         /\ (~inserts /\ ~ages) => AgeOf(world', e) = AgeOf(world, e)

WithinWindow(age) ==
    age * server_tick_rate <= UnitsPerSecond + delta_seconds * server_tick_rate

\* what one interpolation step gives an entity that is not skipped
C7_Blend ==
    call'.op = "interpolate_replication_system" =>
      \A e \in InterpolationQuery :
        LET b == world[e].snapshot_buffer
            n == Len(b.buffer)
            age == b.time_since_last_snapshot
        IN (n >= 2 /\ WithinWindow(age)) =>
             LET newest == b.buffer[n].component
                 second == b.buffer[n - 1].component
                 shown == world'[e].component
                 tnum == IF age * server_tick_rate >= UnitsPerSecond
                         THEN UnitsPerSecond
                         ELSE age * server_tick_rate
             IN /\ shown * UnitsPerSecond
                     = second * UnitsPerSecond + (newest - second) * tnum
                /\ age = 0 => shown = second
                /\ age * server_tick_rate >= UnitsPerSecond => shown = newest
                /\ 2 * age * server_tick_rate = UnitsPerSecond
                     => 2 * shown = second + newest

C8_NoOutput ==
    call'.op = "interpolate_replication_system" =>
      \A e \in Entities :
        Len(world[e].snapshot_buffer.buffer) < 2 =>
          /\ world'[e].component = world[e].component
          /\ world'[e].snapshot_buffer = world[e].snapshot_buffer
          /\ e \notin written'

\* C8: an entity whose buffer holds fewer than 2 snapshots gets no output from
\* the interpolation step: its component is what it was, and its buffer too.
C8_UnderFilledKeepsValue == [][C8_NoOutput]_vars

\* an interpolated entity with one snapshot, whose value differs from the
\* component, right after the interpolation step
C8_Witness ==
    /\ obj = "World"
    /\ call.op = "interpolate_replication_system"
    /\ \E e \in InterpolationQuery :
         /\ Len(world[e].snapshot_buffer.buffer) = 1
         /\ world[e].snapshot_buffer.buffer[1].component # world[e].component
         /\ WithinWindow(AgeOf(world, e))

\* which entities one interpolation step skips
C9_Stall ==
    call'.op = "interpolate_replication_system" =>
      \A e \in InterpolationQuery :
        LET b == world[e].snapshot_buffer
        IN /\ ~WithinWindow(b.time_since_last_snapshot)
                => (e \notin written' /\ world'[e].component = world[e].component)
           /\ (WithinWindow(b.time_since_last_snapshot) /\ Len(b.buffer) >= 2)
                => e \in written'

\* C9: an entity whose age is above tick_duration + delta_time is skipped and
\* keeps its component; one with len >= 2 whose age is not above it is never
\* skipped.
C9_SkippedWhenStalled == [][C9_Stall]_vars

\* a stalled entity with two snapshots was skipped: its component is neither
\* of the values a blend at t = 1 or t = 0 would have given it
C9_Witness ==
    /\ obj = "World"
    /\ call.op = "interpolate_replication_system"
    /\ \E e \in InterpolationQuery :
         LET b == world[e].snapshot_buffer
         IN /\ Len(b.buffer) = 2
            /\ ~WithinWindow(b.time_since_last_snapshot)
            /\ e \notin written
            /\ b.buffer[2].component # world[e].component

\* C10 (as claimed): a frontier() call that directly follows a frontier() call
\* on the same buffer returns an empty range, whatever the order of the
\* indices in the buffer.
C10_SecondFrontierEmpty ==
    (obj = "EventSnapshotBuffer" /\ call.op = "frontier" /\ call.again)
        => result = <<>>

\* C11 (as claimed): frontier() returns only events not yet consumed: no entry
\* the buffer stores is returned by a frontier() call after an earlier
\* frontier() call returned it, whatever inserts, sorts and frontier calls
\* were made.
C11_ReturnedOnce ==
    obj = "EventSnapshotBuffer" => returned \cap consumed = {}

\* C12: frontier_index never decreases and is never reset: whatever call is
\* made (insert, sort_with_id, frontier; on the EventSnapshotBuffer and on the
\* map), the frontier_index of the buffer, and of the buffer of every client
\* of the map, is after the call at least what it was before, and a client's
\* buffer is never replaced by a new one.
C12_FrontierIndexNeverDecreases ==
    [][/\ eb'.buffer.frontier_index >= eb.buffer.frontier_index
       /\ \A c \in DOMAIN cm.buffer :
            /\ c \in DOMAIN cm'.buffer
            /\ cm'.buffer[c].frontier_index >= cm.buffer[c].frontier_index]_vars

\* the frontier index has advanced a second time: a frontier() call returned
\* new entries after an earlier one had returned others
C12_Witness ==
    /\ obj = "EventSnapshotBuffer"
    /\ call.op = "frontier"
    /\ consumed # {}
    /\ returned # {}
    /\ returned \cap consumed = {}
    /\ eb.buffer.frontier_index >= 2

\* s is what is left of t after some of its first entries were removed
IsSuffix(s, t) ==
    /\ Len(s) <= Len(t)
    /\ s = SubSeq(t, Len(t) - Len(s) + 1, Len(t))

\* the insert made by this step leaves inner buffer b as b2 without having
\* stored anything: every entry of b2 was in b, and the latest tick is b's
NothingStored(b, b2) ==
    /\ IsSuffix(b2.buffer, b.buffer)
    /\ b2.latest_snapshot_tick = b.latest_snapshot_tick

\* an insert of an event whose index is below the frontier index stores nothing
C13_Insert ==
    LET inserts == call'.op = "insert"
    IN /\ (obj = "EventSnapshotBuffer" /\ inserts
              /\ call'.index < eb.buffer.frontier_index)
            => NothingStored(eb.buffer, eb'.buffer)
       /\ (obj = "EventSnapshotClientMap" /\ inserts
              /\ call'.target \in DOMAIN cm.buffer
              /\ call'.index < cm.buffer[call'.target].frontier_index)
            => NothingStored(cm.buffer[call'.target], cm'.buffer[call'.target])

\* C13: an event whose index is below the buffer's frontier_index is never
\* stored: after such an insert, into the EventSnapshotBuffer or into a
\* client's buffer of the map, the buffer holds no entry the call added and
\* latest_snapshot_tick is what it was.
C13_ConsumedIndexNeverStored ==
    [][C13_Insert]_vars

\* an event of an index below the frontier index and of a newer tick was
\* inserted into a buffer that holds an entry
C13_Witness ==
    /\ obj = "EventSnapshotBuffer"
    /\ call.op = "insert"
    /\ call.index < eb.buffer.frontier_index
    /\ call.tick > eb.buffer.latest_snapshot_tick
    /\ eb.buffer.buffer # <<>>

\* C14 (as claimed): an event insert that is rejected, for a tick below
\* latest_snapshot_tick or an index below frontier_index, changes nothing:
\* the entries (hence len()), latest_snapshot_tick and frontier_index of the
\* EventSnapshotBuffer, or of the client's buffer of the map, are after the
\* call what they were before, also when the buffer is full.
C14_RejectedInsertChangesNothing ==
    [][LET inserts == call'.op = "insert"
           snapshot == EventSnapshot(call'.index, call'.tick)
       IN /\ (obj = "EventSnapshotBuffer" /\ inserts
                 /\ ~EventSnapshotBufferInner_accepts(eb.buffer, snapshot))
               => eb'.buffer = eb.buffer
          /\ (obj = "EventSnapshotClientMap" /\ inserts
                 /\ call'.target \in DOMAIN cm.buffer
                 /\ ~EventSnapshotBufferInner_accepts(cm.buffer[call'.target], snapshot))
               => cm'.buffer[call'.target] = cm.buffer[call'.target]]_vars

\* a frontier call on the map for a client that has no buffer
C15_Frontier ==
    (/\ obj = "EventSnapshotClientMap"
     /\ call'.op = "frontier"
     /\ call'.target \notin DOMAIN cm.buffer)
        => /\ result' = <<>>
           /\ DOMAIN cm'.buffer = DOMAIN cm.buffer \cup {call'.target}
           /\ cm'.buffer[call'.target] =
                 [buffer |-> <<>>, latest_snapshot_tick |-> 0, frontier_index |-> 0]
           /\ \A c \in DOMAIN cm.buffer : cm'.buffer[c] = cm.buffer[c]
           /\ cm'.max_buffer_size = cm.max_buffer_size

\* C15: frontier(p) on the map for a client p that has no buffer yet returns
\* an empty range, creates an empty buffer for p and leaves the buffer of
\* every other client (entries, latest_snapshot_tick, frontier_index) as it
\* was.
C15_FrontierOfUnknownClient ==
    [][C15_Frontier]_vars

\* frontier was called for a client without a buffer while another client
\* had a buffer with an entry in it
C15_Witness ==
    /\ obj = "EventSnapshotClientMap"
    /\ call.op = "frontier"
    /\ call.created
    /\ \E c \in DOMAIN cm.buffer : c # call.target /\ cm.buffer[c].buffer # <<>>

\* a call made on the map for one client leaves every other client as it was
C16_Frame ==
    (obj = "EventSnapshotClientMap"
       /\ call'.op \in {"insert", "sort_with_id", "iter", "frontier"})
        => \A b \in ClientIds \ {call'.target} :
             IF b \in DOMAIN cm.buffer
             THEN b \in DOMAIN cm'.buffer /\ cm'.buffer[b] = cm.buffer[b]
             ELSE b \notin DOMAIN cm'.buffer

\* C16: the clients of the map are isolated: an insert, sort_with_id, iter or
\* frontier call made for client A changes neither the entries, nor the
\* latest_snapshot_tick, nor the frontier_index of any other client B, and
\* does not create a buffer for B; what B observes is a function of B's
\* buffer, hence of the calls made for B only.
C16_ClientIsolation ==
    [][C16_Frame]_vars

\* sort_with_id was called for one client while another client had an
\* unsorted buffer, which is still unsorted
C16_Witness ==
    /\ obj = "EventSnapshotClientMap"
    /\ call.op = "sort_with_id"
    /\ call.target \in DOMAIN cm.buffer
    /\ \E b \in DOMAIN cm.buffer :
         /\ b # call.target
         /\ Len(cm.buffer[b].buffer) = 2
         /\ cm.buffer[b].buffer[1].index > cm.buffer[b].buffer[2].index

\* C17: for a capacity N >= 1, the EventSnapshotBuffer and the buffer of
\* every client of the map never hold more than N entries, whatever inserts,
\* sorts and frontier calls were made.
C17_EventLenWithinCapacity ==
    /\ (obj = "EventSnapshotBuffer" /\ eb.max_buffer_size >= 1)
          => EventSnapshotBuffer_len(eb) <= eb.max_buffer_size
    /\ (obj = "EventSnapshotClientMap" /\ cm.max_buffer_size >= 1)
          => \A c \in ClientIds :
               EventSnapshotClientMap_len(cm, c) <= cm.max_buffer_size

\* a full buffer after an insert that had to evict an entry
C17_Witness ==
    /\ obj = "EventSnapshotBuffer"
    /\ eb.max_buffer_size >= 1
    /\ call.op = "insert"
    /\ EventSnapshotBuffer_len(eb) = eb.max_buffer_size
    /\ stored > eb.max_buffer_size
    /\ order[Len(order)] = stored

\* what frontier() does to inner buffer b: b2 is the buffer after the call
\* and range the range returned
FrontierEffect(b, b2, range) ==
    LET hits == {i \in 1..Len(b.buffer) : b.buffer[i].index >= b.frontier_index}
    IN /\ b2.buffer = b.buffer
       /\ b2.latest_snapshot_tick = b.latest_snapshot_tick
       /\ IF hits # {}
          THEN \E first \in hits :
                 /\ \A j \in hits : first <= j
                 /\ range = [i \in 1..(Len(b.buffer) - first + 1) |->
                               b.buffer[first + i - 1]]
                 /\ b2.frontier_index = b.buffer[Len(b.buffer)].index + 1
          ELSE /\ range = <<>>
               /\ b2.frontier_index = b.frontier_index

\* C18: frontier() on a buffer with cursor F: when some entry has index >= F
\* it returns the entries from the first such entry to the end, in stored
\* order, and sets frontier_index to the index of the last stored entry + 1;
\* when no entry has index >= F it returns an empty range and leaves
\* frontier_index at F; the stored entries are unchanged in both cases.
C18_FrontierReturnsFromFirstHit ==
    [][/\ (obj = "EventSnapshotBuffer" /\ call'.op = "frontier")
            => FrontierEffect(eb.buffer, eb'.buffer, result')
       /\ (obj = "EventSnapshotClientMap" /\ call'.op = "frontier"
              /\ call'.target \in DOMAIN cm.buffer)
            => FrontierEffect(cm.buffer[call'.target],
                              cm'.buffer[call'.target], result')]_vars

\* a frontier() call returned some of the stored entries and not the first
C18_Witness ==
    /\ obj = "EventSnapshotBuffer"
    /\ call.op = "frontier"
    /\ result # <<>>
    /\ Len(result) < EventSnapshotBuffer_len(eb)
    /\ eb.buffer.frontier_index = result[Len(result)].index + 1

C19_Insert ==
    LET inserts == obj = "EventSnapshotBuffer" /\ call'.op = "insert"
        kept == IF Len(eb.buffer.buffer) >= eb.max_buffer_size
                THEN Tail(eb.buffer.buffer)
                ELSE eb.buffer.buffer
    IN /\ (inserts /\ call'.tick < eb.buffer.latest_snapshot_tick)
            => /\ NothingStored(eb.buffer, eb'.buffer)
               /\ stored' = stored
       /\ (inserts /\ call'.tick = eb.buffer.latest_snapshot_tick
              /\ call'.index >= eb.buffer.frontier_index
              /\ eb.max_buffer_size >= 1)
            => /\ eb'.buffer.buffer =
                     Append(kept, [index |-> call'.index, tick |-> call'.tick])
               /\ eb'.buffer.latest_snapshot_tick = call'.tick
               /\ stored' = stored + 1

C20_EvictsEarliestInserted ==
    [][(obj = "EventSnapshotBuffer" /\ call'.op = "insert")
         => \A gone \in Range(order) \ Range(order') :
              \A n \in Range(order) : gone <= n]_vars

\* C21: the entries of a ComponentSnapshotBuffer are in order of
\* non-decreasing tick in every reachable state, whatever ticks were
\* inserted (out of order, repeated) and whatever add_age and sort_with_tick
\* calls were made.
C21_OrderedByTick ==
    obj = "ComponentSnapshotBuffer"
        => \A i \in 1..Len(cb.buffer) : \A j \in i..Len(cb.buffer) :
             cb.buffer[i].tick <= cb.buffer[j].tick

\* an insert of a tick below a stored tick was made on a buffer that holds
\* entries of different ticks
C21_Witness ==
    /\ obj = "ComponentSnapshotBuffer"
    /\ call.op = "insert"
    /\ Len(cb.buffer) >= 2
    /\ cb.buffer[1].tick < cb.buffer[Len(cb.buffer)].tick
    /\ call.tick < cb.buffer[Len(cb.buffer)].tick
    /\ inserted.n >= 2
    /\ ~inserted.increasing

\* C22: the map gives a client a buffer on the first call made for it, and
\* that buffer is at every moment what a standalone EventSnapshotBuffer of
\* the map's capacity is after the same insert, sort_with_id and frontier
\* calls: the same entries, latest_snapshot_tick and frontier_index, and
\* every call returns the same range on both.
C22_MapBufferIsStandaloneBuffer ==
    obj = "EventSnapshotClientMap"
        => /\ \A c \in ClientIds :
                /\ alone[c].max_buffer_size = cm.max_buffer_size
                /\ IF c \in DOMAIN cm.buffer
                   THEN cm.buffer[c] = alone[c].buffer
                   ELSE alone[c] = EventSnapshotBuffer_new(cm.max_buffer_size)
                /\ EventSnapshotClientMap_len(cm, c) = EventSnapshotBuffer_len(alone[c])
                /\ EventSnapshotClientMap_latest_snapshot_tick(cm, c) =
                      EventSnapshotBuffer_latest_snapshot_tick(alone[c])
           /\ result = aloneResult
           /\ (call.op \in {"insert", "sort_with_id", "iter", "frontier"})
                 => call.target \in DOMAIN cm.buffer

\* a frontier call for a client returned an entry on both, after an insert
\* into the client's full buffer had evicted one
C22_Witness ==
    /\ obj = "EventSnapshotClientMap"
    /\ call.op = "frontier"
    /\ mapInserts = 2
    /\ cm.max_buffer_size = 1
    /\ result # <<>>
    /\ aloneResult = result
    /\ cm.buffer[call.target].buffer = alone[call.target].buffer.buffer
    /\ cm.buffer[call.target].frontier_index >= 2

\* C23: no call on the map removes a client's buffer: the set of clients
\* with a buffer only grows, so clients_count() never decreases, whatever
\* insert, iter, sort_with_id, frontier, len, latest_snapshot and
\* latest_snapshot_tick calls are made.
C23_ClientsOnlyAdded ==
    [][obj = "EventSnapshotClientMap"
         => /\ DOMAIN cm.buffer \subseteq DOMAIN cm'.buffer
            /\ EventSnapshotClientMap_clients_count(cm')
                  >= EventSnapshotClientMap_clients_count(cm)]_vars

\* a call created the buffer of a second client
C23_Witness ==
    /\ obj = "EventSnapshotClientMap"
    /\ call.created
    /\ EventSnapshotClientMap_clients_count(cm) = 2

\* the event buffer after the inserts of the events, all of one tick
RECURSIVE InsertAll(_, _, _)
InsertAll(buffer, events, tick) ==
    IF events = <<>> THEN buffer
    ELSE InsertAll(EventSnapshotBuffer_insert(buffer, Head(events), tick),
                   Tail(events), tick)

\* what a run of a populate system does when ticks are missing
C24_Populate ==
    LET components == call'.op = "client_populate_component_buffer"
        events == call'.op = "client_populate_client_event_buffer"
        mapped == DOMAIN server_entity_ticks
    IN /\ (components /\ debug_assertions /\ changed \ mapped # {})
            => panicked'
       /\ (events /\ debug_assertions /\ Entities \ mapped # {})
            => panicked'
       /\ (components \/ events)
            => \A e \in Entities \ mapped :
                 /\ world'[e].snapshot_buffer = world[e].snapshot_buffer
                 /\ event_buffers'[e] = event_buffers[e]
       /\ (components /\ ~debug_assertions)
            => /\ ~panicked'
               /\ \A e \in changed \cap mapped :
                    world'[e].snapshot_buffer =
                      ComponentSnapshotBuffer_insert(
                        world[e].snapshot_buffer, world[e].component,
                        server_entity_ticks[e])
       /\ (events /\ ~debug_assertions)
            => /\ ~panicked'
               /\ \E read \in EventsRead :
                    \A e \in mapped :
                      event_buffers'[e] =
                        InsertAll(event_buffers[e], read, server_entity_ticks[e])

\* C24: when no server tick is mapped for an entity a populate system comes
\* to, a debug build fails hard (panics); a release build skips the entity,
\* whose buffer (entries, latest_snapshot_tick, age) is left as it was, and
\* the entities that have a tick mapped still get their insert in that run.
C24_UnmappedTickPanicsOrSkips ==
    [][C24_Populate]_vars

\* a release build populated the event buffers: one entity has no tick
\* mapped and an empty buffer, another got the event
C24_Witness ==
    /\ obj = "ClientEvents"
    /\ ~debug_assertions
    /\ ~panicked
    /\ call.op = "client_populate_client_event_buffer"
    /\ \E e \in Entities \ DOMAIN server_entity_ticks :
         event_buffers[e].buffer.buffer = <<>>
    /\ \E e \in DOMAIN server_entity_ticks :
         event_buffers[e].buffer.buffer # <<>>

\* every entry a frontier() call returns has an index at or above the
\* frontier index the buffer had before the call
C25_AboveFrontier ==
    (obj = "EventSnapshotBuffer" /\ call'.op = "frontier")
        => \A i \in 1..Len(result') :
             result'[i].index >= eb.buffer.frontier_index

\* C25: when sort_with_id is called right before every frontier() call, then
\* whatever the order in which the indices were inserted, every event a
\* frontier() call returns has an index >= the frontier_index held before
\* the call, and no stored event is returned by two frontier() calls.
C25_SortedFrontierReturnsOnce ==
    /\ [](obj = "EventSnapshotBuffer" => returned \cap consumed = {})
    /\ [][C25_AboveFrontier]_vars

\* events that were inserted in descending order of index were sorted and
\* then returned by frontier()
C25_Witness ==
    /\ obj = "EventSnapshotBuffer"
    /\ call.op = "frontier"
    /\ Len(order) = 2
    /\ order[1] > order[2]
    /\ eb.buffer.buffer[1].index < eb.buffer.buffer[2].index
    /\ returned = {order[1], order[2]}

\* how a call changes the latest tick of inner buffer b, b2 being the buffer
\* after the call: an insert that stores its event makes it the larger of
\* the latest tick and the event's tick, any other call leaves it
LatestTickStep(b, b2, inserts) ==
    IF inserts /\ ~IsSuffix(b2.buffer, b.buffer)
    THEN /\ b2.latest_snapshot_tick = Max(b.latest_snapshot_tick, call'.tick)
         /\ b2.buffer[Len(b2.buffer)].tick = call'.tick
    ELSE b2.latest_snapshot_tick = b.latest_snapshot_tick

\* the latest tick is at or above the tick of every entry of inner buffer b
LatestTickBounds(b) ==
    \A i \in 1..Len(b.buffer) : b.buffer[i].tick <= b.latest_snapshot_tick

\* C26: for the EventSnapshotBuffer and the buffer of every client of the
\* map, latest_snapshot_tick is the maximum tick over the inserts that stored
\* their event (0 before the first): it starts at 0, a storing insert raises
\* it to the maximum of itself and the event's tick, no call lowers it, and
\* it is at or above the tick of every stored entry.
C26_EventLatestTickIsMax ==
    /\ [](/\ obj = "EventSnapshotBuffer" => LatestTickBounds(eb.buffer)
          /\ obj = "EventSnapshotClientMap"
                => \A c \in DOMAIN cm.buffer : LatestTickBounds(cm.buffer[c]))
    /\ [][/\ obj = "EventSnapshotBuffer"
              => /\ LatestTickStep(eb.buffer, eb'.buffer, call'.op = "insert")
                 /\ eb'.buffer.latest_snapshot_tick
                       >= eb.buffer.latest_snapshot_tick
          /\ obj = "EventSnapshotClientMap"
              => \A c \in DOMAIN cm'.buffer :
                   LET b == IF c \in DOMAIN cm.buffer THEN cm.buffer[c]
                            ELSE EventSnapshotBufferInner_with_capacity(0)
                   IN /\ LatestTickStep(b, cm'.buffer[c],
                           call'.op = "insert" /\ call'.target = c)
                      /\ cm'.buffer[c].latest_snapshot_tick
                            >= b.latest_snapshot_tick]_vars

\* a buffer that stored an event of tick 0 and then one of tick 1 was called
\* for something other than an insert
C26_Witness ==
    /\ obj = "EventSnapshotBuffer"
    /\ call.op # "insert"
    /\ Len(eb.buffer.buffer) = 2
    /\ {eb.buffer.buffer[i].tick : i \in 1..2} = {0, 1}
    /\ eb.buffer.latest_snapshot_tick = 1

\* the stall condition of buffer b under frame delta dt:
\* age > tick_duration + delta_time, both sides times the tick rate
StallCondition(b, dt) ==
    b.time_since_last_snapshot * server_tick_rate
        > UnitsPerSecond + dt * server_tick_rate

\* a step taken while the stall condition holds, with the delta unchanged and
\* without an accepted insert, keeps the condition and the component; an
\* interpolation step taken while it does not hold writes the component
C27_Step ==
    \A e \in InterpolationQuery :
      LET b == world[e].snapshot_buffer
          b2 == world'[e].snapshot_buffer
          accepts == /\ call'.op = "insert"
                     /\ call'.target = e
                     /\ call'.tick > b.latest_snapshot_tick
      IN /\ (/\ Len(b.buffer) >= 2
             /\ StallCondition(b, delta_seconds)
             /\ delta_seconds' = delta_seconds
             /\ ~accepts)
              => /\ StallCondition(b2, delta_seconds')
                 /\ world'[e].component = world[e].component
                 /\ e \notin written'
         /\ (/\ call'.op = "interpolate_replication_system"
             /\ Len(b.buffer) >= 2
             /\ ~StallCondition(b, delta_seconds))
              => e \in written'

\* C27: with an unchanged frame delta and a buffer of two or more entries,
\* once age > tick_duration + delta_time holds it holds after every later
\* step until an insert is accepted: interpolation does not resume and the
\* component keeps its value; an interpolation step that finds the age
\* within tick_duration + delta_time of the last accepted insert is not
\* stalled.
C27_StallPersistsUntilAccepted ==
    [][C27_Step]_vars

\* a stale snapshot was received for an entity whose buffer is stalled
C27_Witness ==
    /\ obj = "World"
    /\ call.op = "insert"
    /\ call.target \in InterpolationQuery
    /\ LET b == world[call.target].snapshot_buffer
       IN /\ Len(b.buffer) >= 2
          /\ call.tick <= b.latest_snapshot_tick
          /\ StallCondition(b, delta_seconds)

\* C28: OwnerControlling comes only from the commands init_prediction queued,
\* init_prediction queues it for exactly the newly Predicted entities whose
\* NetworkOwner id is the local client id, and no step assigns the component
\* of an entity that carries OwnerControlling or lacks InterpolatedReplication
C28_Step ==
    /\ owner_controlling \subseteq owner_controlling'
    /\ owner_controlling' \ owner_controlling \subseteq commands
    /\ \A e \in Entities :
         e \in commands' \ commands
            <=> /\ call'.op = "init_prediction"
                /\ e \notin commands
                /\ e \in predicted
                /\ e \in added_predicted
                /\ e \in DOMAIN network_owner
                /\ network_owner[e] = transport_client_id
    /\ \A e \in Entities :
         e \in owner_controlling \/ e \notin interpolated_replication
            => /\ world'[e].component = world[e].component
               /\ e \notin written'

C28_OwnerControllingOnlyForLocalOwner == [][C28_Step]_vars

\* an interpolation step runs while an entity with two snapshots in its
\* buffer carries OwnerControlling, which it got as a newly Predicted entity
\* of the local client
C28_Witness ==
    /\ call.op = "interpolate_replication_system"
    /\ \E e \in owner_controlling :
         /\ e \in interpolated_replication
         /\ network_owner[e] = transport_client_id
         /\ Len(world[e].snapshot_buffer.buffer) >= 2
         /\ Interpolates(world[e])
    /\ \E e \in predicted \ owner_controlling : e \in DOMAIN network_owner

====
